---- MODULE Spec2Model ----
(***************************************************************************)
(* Model of the crime-analysis dashboard: the table normaliser/reshaper    *)
(* load_and_clean (src/src/data_prep.py) and the Streamlit script          *)
(* dashboard.py, which is re-executed from its first line on every         *)
(* interaction.  Strings are sequences of one-character strings so that    *)
(* the column-name normalisation is computed character by character.       *)
(***************************************************************************)
EXTENDS Integers, Sequences, FiniteSets, TLC

VARIABLES
    npc, rawName, name1, name2,       \* the normalisation of one column name
    csv,                              \* the source table file (never written)
    loaded,                           \* what load_and_clean produced
    geoExists,                        \* whether data/india_state.geojson exists
    pc,                               \* position of the dashboard script
    df,                               \* dashboard.py's module-level df
    widget,                           \* the sidebar widgets' values (kept across reruns)
    states, years,                    \* dashboard.py's states, years
    filtered_df,                      \* dashboard.py's filtered_df
    shown,                            \* what the current script run has put on the page
    kpi,                              \* total_crimes of the KPI row
    runs, csvReads, geoReads          \* script runs started, file reads performed

vars == <<npc, rawName, name1, name2, csv, loaded, geoExists, pc, df, widget,
          states, years, filtered_df, shown, kpi, runs, csvReads, geoReads>>

normVars == <<npc, rawName, name1, name2>>

dashVars == <<geoExists, df, widget, states, years, filtered_df, shown, kpi,
              runs, csvReads, geoReads>>

----------------------------------------------------------------------------
(* Bounds of the model *)

MaxLen == 3
MaxRows == 2
MaxCols == 4
MaxRuns == 3

----------------------------------------------------------------------------
(* Characters and strings *)

UPPER == <<"A","B","C","D","E","F","G","H","I","J","K","L","M",
           "N","O","P","Q","R","S","T","U","V","W","X","Y","Z">>
LOWER == <<"a","b","c","d","e","f","g","h","i","j","k","l","m",
           "n","o","p","q","r","s","t","u","v","w","x","y","z">>
DIGITS == <<"0","1","2","3","4","5","6","7","8","9">>

Range(s) == { s[i] : i \in DOMAIN s }

\* a sequence given as a function on 1..n, as the list of its elements
List(s) == s \o <<>>

UpperChars == Range(UPPER)
DigitChars == Range(DIGITS)
\* Python's \w on the characters of the model: letters, digits, underscore
WordChars == Range(UPPER) \cup Range(LOWER) \cup Range(DIGITS) \cup {"_"}

IsSpace(c) == c \in {" ", "\t", "\n", "\r"}
IsDigit(c) == c \in DigitChars
IsWord(c) == c \in WordChars

LowerOf == [c \in UpperChars |-> LOWER[CHOOSE i \in DOMAIN UPPER : UPPER[i] = c]]

LowerChar(c) == IF c \in UpperChars THEN LowerOf[c] ELSE c

DigitVal(c) == (CHOOSE i \in DOMAIN DIGITS : DIGITS[i] = c) - 1

RECURSIVE LStrip(_)
LStrip(s) == IF s # <<>> /\ IsSpace(Head(s)) THEN LStrip(Tail(s)) ELSE s

RECURSIVE RStrip(_)
RStrip(s) ==
    IF s # <<>> /\ IsSpace(s[Len(s)]) THEN RStrip(SubSeq(s, 1, Len(s) - 1)) ELSE s

\* str.strip()
Strip(s) == RStrip(LStrip(s))

\* str.lower()
Lower(s) == List([i \in DOMAIN s |-> LowerChar(s[i])])

\* str.replace(" ", "_")
ReplaceSpace(s) == List([i \in DOMAIN s |-> IF s[i] = " " THEN "_" ELSE s[i]])

\* a variant that leaves a space where a special character was
RemoveSpecialAsSpace(s) ==
    List([i \in DOMAIN s |-> IF IsWord(s[i]) THEN s[i] ELSE " "])

\* str.replace(r"[^\w_]", "", regex=True)
RemoveSpecial(s) == SelectSeq(s, IsWord)

\* the four chained string operations on one column name
NormalizeName(s) == RemoveSpecial(ReplaceSpace(Lower(Strip(s))))

\* str.isdigit()
IsDigitStr(s) == s # <<>> /\ \A i \in DOMAIN s : IsDigit(s[i])

RECURSIVE ParseInt(_)
\* int(s) of a string of decimal digits
ParseInt(s) ==
    IF s = <<>> THEN 0
    ELSE 10 * ParseInt(SubSeq(s, 1, Len(s) - 1)) + DigitVal(s[Len(s)])

----------------------------------------------------------------------------
(* Normalisation of one column name, applied once and then to its own output *)

Alphabet == {" ", "\t", "A", "a", "1", "(", "_"}

RawNames == UNION { [1..n -> Alphabet] : n \in 0..MaxLen }

InitNorm ==
    /\ npc = "raw"
    /\ rawName \in RawNames
    /\ name1 = <<>>
    /\ name2 = <<>>

NormalizeOnce ==
    /\ npc = "raw"
    /\ name1' = NormalizeName(rawName)
    /\ npc' = "once"
    /\ UNCHANGED <<rawName, name2, csv, loaded, pc>>
    /\ UNCHANGED dashVars

NormalizeAgain ==
    /\ npc = "once"
    /\ name2' = NormalizeName(name1)
    /\ npc' = "twice"
    /\ UNCHANGED <<rawName, name1, csv, loaded, pc>>
    /\ UNCHANGED dashVars

----------------------------------------------------------------------------
(* Names *)

\* raw headers of the source table
H_State == <<"S","t","a","t","e","/","U","T">>
H_Y2020 == <<"2","0","2","0">>
H_Y2020sp == <<" ","2","0","2","0">>
H_Y2021 == <<"2","0","2","1">>
H_Pop == <<"M","i","d","-","Y","e","a","r"," ","P","r","o","j","e","c","t","e","d"," ","P","o","p","u","l","a","t","i","o","n"," ","(","i","n"," ","L","a","k","h","s",")"," ","(","2","0","2","2",")">>
H_Rate == <<"R","a","t","e"," ","o","f"," ","C","o","g","n","i","z","a","b","l","e"," ","C","r","i","m","e","s"," ","(","I","P","C",")"," ","(","2","0","2","2",")">>
H_Charge == <<"C","h","a","r","g","e","s","h","e","e","t","i","n","g"," ","R","a","t","e"," ","(","2","0","2","2",")">>
H_SlNo == <<"S","l","."," ","N","o",".">>

\* keys and values of rename_map, and the column names the code uses
K_stateut == <<"s","t","a","t","e","u","t">>
STATE_UT == <<"s","t","a","t","e","_","u","t">>
K_population == <<"m","i","d","y","e","a","r","_","p","r","o","j","e","c","t","e","d","_","p","o","p","u","l","a","t","i","o","n","_","i","n","_","l","a","k","h","s","_","2","0","2","2">>
POPULATION_LAKHS == <<"p","o","p","u","l","a","t","i","o","n","_","l","a","k","h","s">>
K_rate == <<"r","a","t","e","_","o","f","_","c","o","g","n","i","z","a","b","l","e","_","c","r","i","m","e","s","_","i","p","c","_","2","0","2","2">>
CRIME_RATE_IPC_2022 == <<"c","r","i","m","e","_","r","a","t","e","_","i","p","c","_","2","0","2","2">>
CHARGESHEETING_RATE_2022 == <<"c","h","a","r","g","e","s","h","e","e","t","i","n","g","_","r","a","t","e","_","2","0","2","2">>
YEAR == <<"y","e","a","r">>
TOTAL_CRIMES == <<"t","o","t","a","l","_","c","r","i","m","e","s">>
CRIME_RATE_PER_100K == <<"c","r","i","m","e","_","r","a","t","e","_","p","e","r","_","1","0","0","k">>

\* region names
Goa == <<"G","o","a">>
Kerala == <<"K","e","r","a","l","a">>
TotalStateS == <<"T","o","t","a","l"," ","S","t","a","t","e"," ","(","S",")">>
TotalUTS == <<"T","o","t","a","l"," ","U","T","(","S",")">>
TotalAllIndia == <<"T","o","t","a","l"," ","A","l","l"," ","I","n","d","i","a">>
Odisha == <<"O","d","i","s","h","a">>
Orissa == <<"O","r","i","s","s","a">>
STATE_UT_CLEAN == <<"s","t","a","t","e","_","u","t","_","c","l","e","a","n">>

\* rename_map of the heatmap tab
geo_rename_map ==
    << <<<<"A","n","d","a","m","a","n"," ","a","n","d"," ","N","i","c","o","b","a","r"," ","I","s","l","a","n","d","s">>,
         <<"A","n","d","a","m","a","n"," ","a","n","d"," ","N","i","c","o","b","a","r">>>>,
       <<<<"P","o","n","d","i","c","h","e","r","r","y">>,
         <<"P","u","d","u","c","h","e","r","r","y">>>>,
       <<<<"O","d","i","s","h","a">>,
         <<"O","r","i","s","s","a">>>>,
       <<<<"U","t","t","a","r","a","k","h","a","n","d">>,
         <<"U","t","t","a","r","a","n","c","h","a","l">>>>,
       <<<<"D","a","d","r","a"," ","a","n","d"," ","N","a","g","a","r"," ","H","a","v","e","l","i"," ","a","n","d"," ","D","a","m","a","n"," ","a","n","d"," ","D","i","u">>,
         <<"D","a","d","r","a"," ","a","n","d"," ","N","a","g","a","r"," ","H","a","v","e","l","i">>>>,
       <<<<"L","a","d","a","k","h">>,
         <<"J","a","m","m","u"," ","a","n","d"," ","K","a","s","h","m","i","r">>>>,
       <<<<"T","e","l","a","n","g","a","n","a">>,
         <<"A","n","d","h","r","a"," ","P","r","a","d","e","s","h">>>> >>

rename_map == << <<K_stateut, STATE_UT>>,
                 <<K_population, POPULATION_LAKHS>>,
                 <<K_rate, CRIME_RATE_IPC_2022>>,
                 <<CHARGESHEETING_RATE_2022, CHARGESHEETING_RATE_2022>> >>

\* the candidate id_vars of the melt, in the code's order
id_candidates == <<STATE_UT, POPULATION_LAKHS, CRIME_RATE_IPC_2022,
                   CHARGESHEETING_RATE_2022>>

exclude_list == {TotalStateS, TotalUTS, TotalAllIndia}

----------------------------------------------------------------------------
(* Cells and data frames.  A cell is text, a number n/d, +infinity or      *)
(* missing (NaN); a data frame is a list of column names, which may        *)
(* repeat, and a list of rows, each a list of cells in column order.       *)

NA == [kind |-> "na", s |-> <<>>, n |-> 0, d |-> 1]
INF == [kind |-> "inf", s |-> <<>>, n |-> 0, d |-> 1]
Txt(s) == [kind |-> "str", s |-> s, n |-> 0, d |-> 1]
Rat(n, d) == [kind |-> "num", s |-> <<>>, n |-> n, d |-> d]
Num(n) == Rat(n, 1)

IsNA(c) == c.kind = "na"

Frame(columns, rows) == [columns |-> columns, rows |-> rows]
EmptyFrame == Frame(<<>>, <<>>)

HasColumn(f, name) == name \in Range(f.columns)

\* position of the first column called name
ColPos(f, name) ==
    CHOOSE p \in DOMAIN f.columns :
        /\ f.columns[p] = name
        /\ \A r \in 1..(p - 1) : f.columns[r] # name

\* row[name]
Get(f, row, name) == row[ColPos(f, name)]

\* pd.read_csv: an empty field is missing, any other field is kept
ReadCell(s) == IF s = <<>> THEN NA ELSE Txt(s)

ReadCsv(file) ==
    Frame(file.header,
          List([i \in DOMAIN file.rows |->
              List([j \in DOMAIN file.rows[i] |-> ReadCell(file.rows[i][j])])]))

\* pd.to_numeric(errors="coerce") on one cell
ToNumeric(c) ==
    IF c.kind = "str"
    THEN (IF IsDigitStr(c.s) THEN Num(ParseInt(c.s)) ELSE NA)
    ELSE c

\* df.rename(columns=...) on one name
Rename(name) ==
    IF \E k \in DOMAIN rename_map : rename_map[k][1] = name
    THEN rename_map[CHOOSE k \in DOMAIN rename_map : rename_map[k][1] = name][2]
    ELSE name

----------------------------------------------------------------------------
(* DataFrame.melt *)

\* the positions of the columns called name, ascending
Positions(f, name) ==
    SelectSeq([p \in DOMAIN f.columns |-> p], LAMBDA p : f.columns[p] = name)

RECURSIVE Indexer(_, _)
\* Index.get_indexer_for(labels): the positions of each label in turn
Indexer(f, labels) ==
    IF labels = <<>> THEN <<>>
    ELSE Positions(f, Head(labels)) \o Indexer(f, Tail(labels))

RECURSIVE Unique(_)
\* the first occurrence of each element, in order
Unique(s) ==
    IF s = <<>> THEN <<>>
    ELSE LET r == Unique(SubSeq(s, 1, Len(s) - 1))
         IN  IF s[Len(s)] \in Range(r) THEN r ELSE Append(r, s[Len(s)])

\* a variant that unpivots a repeated label once per occurrence found
ValuePositionsRepeated(f, id_vars, value_vars, wholeFrame) ==
    SelectSeq(Indexer(f, id_vars \o value_vars),
              LAMBDA p : f.columns[p] \notin Range(id_vars))

\* the positions of the columns melt unpivots.  With no id_vars and an
\* empty value_vars the library either keeps no column or unpivots the whole
\* frame, depending on its version (wholeFrame).
ValuePositions(f, id_vars, value_vars, wholeFrame) ==
    IF id_vars = <<>> /\ value_vars = <<>> /\ wholeFrame
    THEN [p \in DOMAIN f.columns |-> p]
    ELSE SelectSeq(Unique(Indexer(f, id_vars \o value_vars)),
                   LAMBDA p : f.columns[p] \notin Range(id_vars))

\* a variant that unpivots only the first column of each label
MeltOneColumnPerLabel(f, id_vars, value_vars, var_name, value_name, wholeFrame) ==
    LET all == ValuePositions(f, id_vars, value_vars, wholeFrame)
        valPos == SelectSeq(all, LAMBDA p : p = ColPos(f, f.columns[p]))
        N == Len(f.rows)
    IN  Frame(id_vars \o <<var_name, value_name>>,
              List([k \in 1..(N * Len(valPos)) |->
                  LET j == valPos[((k - 1) \div N) + 1]
                      i == ((k - 1) % N) + 1
                  IN  [m \in DOMAIN id_vars |-> f.rows[i][ColPos(f, id_vars[m])]]
                      \o <<Txt(f.columns[j]), f.rows[i][j]>>]))

\* one long-form row per (value column, input row), value columns outermost;
\* each carries the id_vars cells of its input row, the value column's name
\* and the cell
Melt(f, id_vars, value_vars, var_name, value_name, wholeFrame) ==
    LET valPos == ValuePositions(f, id_vars, value_vars, wholeFrame)
        N == Len(f.rows)
    IN  Frame(id_vars \o <<var_name, value_name>>,
              List([k \in 1..(N * Len(valPos)) |->
                  LET j == valPos[((k - 1) \div N) + 1]
                      i == ((k - 1) % N) + 1
                  IN  [m \in DOMAIN id_vars |-> f.rows[i][ColPos(f, id_vars[m])]]
                      \o <<Txt(f.columns[j]), f.rows[i][j]>>]))

----------------------------------------------------------------------------
(* load_and_clean *)

\* the standardised column names, after the rename of the known aliases
NormalizeColumns(columns) ==
    List([i \in DOMAIN columns |-> Rename(NormalizeName(columns[i]))])

YearCols(columns) == SelectSeq(columns, IsDigitStr)

\* a variant that carries every column that is no year column
IdVarsAllMetadata(columns) == SelectSeq(columns, LAMBDA c : ~IsDigitStr(c))

IdVars(columns) == SelectSeq(id_candidates, LAMBDA c : c \in Range(columns))

\* the columns pd.to_numeric is applied to
NumericColumns == {TOTAL_CRIMES, POPULATION_LAKHS, CRIME_RATE_IPC_2022,
                   CHARGESHEETING_RATE_2022}

\* astype(int) on year, to_numeric(errors="coerce") on the numeric columns
CleanTypes(f) ==
    Frame(f.columns,
          List([i \in DOMAIN f.rows |->
              List([j \in DOMAIN f.columns |->
                  IF f.columns[j] = YEAR THEN Num(ParseInt(f.rows[i][j].s))
                  ELSE IF f.columns[j] \in NumericColumns
                       THEN ToNumeric(f.rows[i][j])
                       ELSE f.rows[i][j]])]))

\* astype(int) raises ValueError on a label that is no integer
YearsParse(f) == \A i \in DOMAIN f.rows : IsDigitStr(Get(f, f.rows[i], YEAR).s)

\* a variant that drops a row with a missing value in any column
DropNaAnyColumn(f, subset) ==
    Frame(f.columns,
          SelectSeq(f.rows, LAMBDA row : \A j \in DOMAIN row : ~IsNA(row[j])))

\* DataFrame.dropna(subset=...)
DropNa(f, subset) ==
    Frame(f.columns,
          SelectSeq(f.rows, LAMBDA row : \A c \in subset : ~IsNA(Get(f, row, c))))

\* lines 10-28: the file as a frame with standardised and renamed columns
Standardize(file) ==
    LET df0 == ReadCsv(file)
    IN  Frame(NormalizeColumns(df0.columns), df0.rows)

\* lines 30-55 on the standardised frame: status is "ok" when out is
\* returned, and the exception's name when a statement raises
ReshapeAndClean(f, wholeFrame) ==
    LET year_cols == YearCols(f.columns)
        id_vars == IdVars(f.columns)
        df_long == Melt(f, id_vars, year_cols, YEAR, TOTAL_CRIMES, wholeFrame)
    IN  IF ~YearsParse(df_long)
        THEN [status |-> "ValueError", columns |-> f.columns, melted |-> df_long,
              cleaned |-> EmptyFrame, out |-> EmptyFrame]
        ELSE IF ~HasColumn(df_long, STATE_UT)
        THEN [status |-> "KeyError", columns |-> f.columns, melted |-> df_long,
              cleaned |-> CleanTypes(df_long), out |-> EmptyFrame]
        ELSE [status |-> "ok", columns |-> f.columns, melted |-> df_long,
              cleaned |-> CleanTypes(df_long),
              out |-> DropNa(CleanTypes(df_long), {STATE_UT, TOTAL_CRIMES})]

\* the library's versions differ only on a melt with nothing to keep and
\* nothing to unpivot
MeltVariants(f) ==
    IF IdVars(f.columns) = <<>> /\ YearCols(f.columns) = <<>>
    THEN BOOLEAN ELSE {FALSE}

\* load_and_clean(filename): the outcomes the installed library allows
LoadAndClean(file) ==
    LET f == Standardize(file)
    IN  { ReshapeAndClean(f, wholeFrame) : wholeFrame \in MeltVariants(f) }

\* what the caller of load_and_clean is left with
Returned(r) == [r EXCEPT !.columns = <<>>, !.melted = EmptyFrame,
                         !.cleaned = EmptyFrame]

NotLoaded == [status |-> "none", columns |-> <<>>, melted |-> EmptyFrame,
              cleaned |-> EmptyFrame, out |-> EmptyFrame]

----------------------------------------------------------------------------
(* Source tables *)

File(header, rows) == [header |-> header, rows |-> rows]

\* the elements of pool at the positions in I, in pool order
Pick(pool, I) ==
    List([k \in 1..Cardinality(I) |->
        pool[CHOOSE i \in I : Cardinality({j \in I : j < i}) = k - 1]])

HeaderLists(pool, maxCols) ==
    { Pick(pool, I) : I \in { J \in SUBSET DOMAIN pool : Cardinality(J) <= maxCols } }

\* a row of the file under header: the region in the region column, the count
\* in every year column, the metadata value in every other column
RegionHeaders == {H_State}
YearHeaders == {H_Y2020, H_Y2020sp, H_Y2021}

RowOf(header, region, crimes, meta) ==
    List([j \in DOMAIN header |->
        IF header[j] \in RegionHeaders THEN region
        ELSE IF header[j] \in YearHeaders THEN crimes
        ELSE meta])

RowsOf(header, regions, crimes, metas) ==
    { RowOf(header, r, c, m) : r \in regions, c \in crimes, m \in metas }

\* csv is a file with one of the headers and at most maxRows such rows
IsFile(file, headers, maxRows, regions, crimes, metas) ==
    \E h \in headers : \E n \in 0..maxRows :
        \E rows \in [1..n -> RowsOf(h, regions, crimes, metas)] :
            file = File(h, rows)

LoadHeaderPool == <<H_State, H_Y2020, H_Y2020sp, H_Y2021, H_Pop, H_SlNo>>

NoFile == File(<<>>, <<>>)

InitLoad ==
    \* <<>> is an empty field, <<"-">> a field that is no number
    /\ IsFile(csv, HeaderLists(LoadHeaderPool, MaxCols), MaxRows,
              {<<>>, Goa, Kerala}, {<<"-">>, <<"7">>}, {<<"-">>, <<"2">>})
    /\ loaded = NotLoaded
    /\ pc = "start"

\* a call of load_and_clean on the source table
CallLoadAndClean ==
    /\ pc = "start"
    /\ loaded' \in LoadAndClean(csv)
    /\ pc' = "loaded"
    /\ UNCHANGED csv
    /\ UNCHANGED dashVars
    /\ UNCHANGED normVars

----------------------------------------------------------------------------
(* dashboard.py: the statements before the widgets *)

\* a variant that keeps the aggregate rows and drops the others
ExcludeInverted(f) ==
    Frame(f.columns,
          SelectSeq(f.rows, LAMBDA row : Get(f, row, STATE_UT).s \in exclude_list))

\* df[~df["state_ut"].isin(exclude_list)]
Exclude(f) ==
    Frame(f.columns,
          SelectSeq(f.rows, LAMBDA row : Get(f, row, STATE_UT).s \notin exclude_list))

\* a numeric cell times an integer
Times(c, k) == IF c.kind = "num" THEN Rat(c.n * k, c.d) ELSE c

\* float division of two numeric cells: NaN when either is missing or for
\* 0/0, infinity for x/0
Divide(a, b) ==
    IF IsNA(a) \/ IsNA(b) THEN NA
    ELSE IF b.n = 0 THEN (IF a.n = 0 THEN NA ELSE INF)
    ELSE Rat(a.n * b.d, a.d * b.n)

\* a variant that falls back to the total record by record
RatePer100kOrTotal(total, population) ==
    IF IsNA(population) \/ population.n = 0 THEN total
    ELSE Times(Divide(total, Times(population, 100000)), 100000)

\* (total_crimes / (population_lakhs * 100000)) * 100000
RatePer100k(total, population) ==
    Times(Divide(total, Times(population, 100000)), 100000)

\* df["crime_rate_per_100k"] = ...
AddRate(f) ==
    Frame(Append(f.columns, CRIME_RATE_PER_100K),
          List([i \in DOMAIN f.rows |->
              Append(f.rows[i],
                     IF HasColumn(f, POPULATION_LAKHS)
                     THEN RatePer100k(Get(f, f.rows[i], TOTAL_CRIMES),
                                      Get(f, f.rows[i], POPULATION_LAKHS))
                     ELSE Get(f, f.rows[i], TOTAL_CRIMES))]))

----------------------------------------------------------------------------
(* dashboard.py: sidebar, filter, KPIs and tabs *)

\* df["state_ut"].unique(), df["year"].unique()
AllStates(f) == { Get(f, f.rows[i], STATE_UT).s : i \in DOMAIN f.rows }
AllYears(f) == { Get(f, f.rows[i], YEAR).n : i \in DOMAIN f.rows }

\* a multiselect holds <<>> until the user sets it, and then <<selection>>
WidgetDefaults == [select_all |-> TRUE, states |-> <<>>, years |-> <<>>]

\* the value of the States/UTs multiselect
StatesValue(w, all_states) ==
    IF w.states # <<>> THEN w.states[1]
    ELSE IF w.select_all THEN all_states ELSE {}

\* the value of the Years multiselect
YearsValue(w, all_years) ==
    IF w.years # <<>> THEN w.years[1] ELSE all_years

\* df[(df["state_ut"].isin(states)) & (df["year"].isin(years))]
Filter(f, sel_states, sel_years) ==
    Frame(f.columns,
          SelectSeq(f.rows, LAMBDA row : /\ Get(f, row, STATE_UT).s \in sel_states
                                         /\ Get(f, row, YEAR).n \in sel_years))

RECURSIVE SumColumn(_, _, _)
\* f[name].sum() over the first k rows
SumColumn(f, name, k) ==
    IF k = 0 THEN 0 ELSE SumColumn(f, name, k - 1) + Get(f, f.rows[k], name).n

\* Series.replace(rename_map) on one region name
GeoClean(name) ==
    IF \E k \in DOMAIN geo_rename_map : geo_rename_map[k][1] = name
    THEN geo_rename_map[CHOOSE k \in DOMAIN geo_rename_map :
                            geo_rename_map[k][1] = name][2]
    ELSE name

\* filtered_df["state_ut_clean"] = filtered_df["state_ut"].replace(rename_map)
AddStateClean(f) ==
    Frame(Append(f.columns, STATE_UT_CLEAN),
          List([i \in DOMAIN f.rows |->
              Append(f.rows[i], Txt(GeoClean(Get(f, f.rows[i], STATE_UT).s)))]))

\* set(filtered_df["state_ut_clean"].unique())
StatesClean(f) == { Get(f, f.rows[i], STATE_UT_CLEAN).s : i \in DOMAIN f.rows }

\* a variant that never looks for the boundary file
MapAvailableUnchecked == TRUE

\* os.path.exists(geojson_path)
MapAvailable == geoExists

\* what the steps after the empty-selection check put on the page
Downstream == {"kpi", "bar", "top_bottom", "line", "map", "unmatched_warning",
               "map_missing_warning", "scatter", "chargesheeting_info",
               "table", "download"}

\* the rows of the session's table: regions with a known, a zero and an
\* empty population, and a totals row
DashboardRows(h) ==
    { RowOf(h, Goa, <<"7">>, <<"2">>),
      RowOf(h, Goa, <<"7">>, <<"0">>),
      RowOf(h, Odisha, <<"3">>, <<>>),
      RowOf(h, TotalAllIndia, <<"7">>, <<"2">>) }

DashboardHeaders ==
    { <<H_State, H_Y2020, H_Y2021, H_Pop, H_Rate, H_Charge>>,
      <<H_State, H_Y2020, H_Y2021>>,
      <<H_Y2020, H_Pop>> }

\* the start of a session: the file is on disk, no widget has been touched
InitDashboard ==
    /\ \E h \in DashboardHeaders : \E n \in 0..MaxRows :
           \E rows \in [1..n -> DashboardRows(h)] : csv = File(h, rows)
    /\ geoExists \in BOOLEAN
    /\ loaded = NotLoaded
    /\ pc = "start"
    /\ df = EmptyFrame
    /\ widget = WidgetDefaults
    /\ states = {} /\ years = {}
    /\ filtered_df = EmptyFrame
    /\ shown = {}
    /\ kpi = 0
    /\ runs = 0 /\ csvReads = 0 /\ geoReads = 0

\* lines 8-18 with the file read only by the first run of the session
LoadDataCached ==
    /\ pc = "start"
    /\ \E r \in (IF runs = 0 THEN { Returned(x) : x \in LoadAndClean(csv) }
                            ELSE {loaded}) :
              /\ loaded' = r
              /\ IF r.status = "ok"
                 THEN df' = AddRate(Exclude(r.out)) /\ pc' = "sidebar"
                 ELSE df' = EmptyFrame /\ pc' = "crashed"
    /\ runs' = runs + 1
    /\ csvReads' = IF runs = 0 THEN csvReads + 1 ELSE csvReads
    /\ states' = {} /\ years' = {}
    /\ filtered_df' = EmptyFrame
    /\ shown' = {}
    /\ kpi' = 0
    /\ UNCHANGED normVars
    /\ UNCHANGED <<csv, geoExists, widget, geoReads>>

\* lines 8-18: a run of the script starts by reading and preparing the table;
\* an exception of load_and_clean ends the run
LoadData ==
    /\ pc = "start"
    /\ \E r \in { Returned(x) : x \in LoadAndClean(csv) } :
              /\ loaded' = r
              /\ IF r.status = "ok"
                 THEN df' = AddRate(Exclude(r.out)) /\ pc' = "sidebar"
                 ELSE df' = EmptyFrame /\ pc' = "crashed"
    /\ runs' = runs + 1
    /\ csvReads' = csvReads + 1
    /\ states' = {} /\ years' = {}
    /\ filtered_df' = EmptyFrame
    /\ shown' = {}
    /\ kpi' = 0
    /\ UNCHANGED normVars
    /\ UNCHANGED <<csv, geoExists, widget, geoReads>>

\* lines 20-42: title, sidebar widgets and the filter
Sidebar ==
    /\ pc = "sidebar"
    /\ states' = StatesValue(widget, AllStates(df))
    /\ years' = YearsValue(widget, AllYears(df))
    /\ filtered_df' = Filter(df, states', years')
    /\ shown' = shown \cup {"title", "filters"}
    /\ pc' = "filtered"
    /\ UNCHANGED normVars
    /\ UNCHANGED <<csv, loaded, geoExists, df, widget, kpi, runs, csvReads, geoReads>>

\* a variant that shows the notice and goes on
StopEmptyContinue ==
    /\ pc = "filtered"
    /\ filtered_df.rows = <<>>
    /\ shown' = shown \cup {"no_data_info"}
    /\ pc' = "tab1"
    /\ UNCHANGED normVars
    /\ UNCHANGED <<csv, loaded, geoExists, df, widget, states, years, filtered_df,
                   kpi, runs, csvReads, geoReads>>

\* lines 44-46: st.info and st.stop
StopEmpty ==
    /\ pc = "filtered"
    /\ filtered_df.rows = <<>>
    /\ shown' = shown \cup {"no_data_info"}
    /\ pc' = "stopped"
    /\ UNCHANGED normVars
    /\ UNCHANGED <<csv, loaded, geoExists, df, widget, states, years, filtered_df,
                   kpi, runs, csvReads, geoReads>>

\* lines 48-66: the KPI row (of its three metrics the model keeps the total)
KPIs ==
    /\ pc = "filtered"
    /\ filtered_df.rows # <<>>
    /\ kpi' = SumColumn(filtered_df, TOTAL_CRIMES, Len(filtered_df.rows))
    /\ shown' = shown \cup {"kpi"}
    /\ pc' = "tab1"
    /\ UNCHANGED normVars
    /\ UNCHANGED <<csv, loaded, geoExists, df, widget, states, years, filtered_df,
                   runs, csvReads, geoReads>>

\* lines 68-90
Tab1 ==
    /\ pc = "tab1"
    /\ shown' = shown \cup {"bar", "top_bottom"}
    /\ pc' = "tab2"
    /\ UNCHANGED normVars
    /\ UNCHANGED <<csv, loaded, geoExists, df, widget, states, years, filtered_df,
                   kpi, runs, csvReads, geoReads>>

\* lines 92-103
Tab2 ==
    /\ pc = "tab2"
    /\ shown' = shown \cup {"line"}
    /\ pc' = "tab3"
    /\ UNCHANGED normVars
    /\ UNCHANGED <<csv, loaded, geoExists, df, widget, states, years, filtered_df,
                   kpi, runs, csvReads, geoReads>>

\* lines 111-145: the file is opened and read (open raises when it is absent),
\* the reconciled name column is added, unmatched names are warned about
Tab3Map ==
    /\ pc = "tab3"
    /\ MapAvailable
    /\ IF geoExists
       THEN /\ geoReads' = geoReads + 1
            /\ filtered_df' = AddStateClean(filtered_df)
            /\ \E geo_states \in {{Goa}, {Goa, Orissa}} :
                  shown' = shown \cup {"map"} \cup
                      (IF StatesClean(filtered_df') \ geo_states # {}
                       THEN {"unmatched_warning"} ELSE {})
            /\ pc' = "tab4"
       ELSE /\ pc' = "crashed"
            /\ UNCHANGED <<geoReads, filtered_df, shown>>
    /\ UNCHANGED normVars
    /\ UNCHANGED <<csv, loaded, geoExists, df, widget, states, years, kpi, runs,
                   csvReads>>

\* lines 147-148
Tab3Warn ==
    /\ pc = "tab3"
    /\ ~MapAvailable
    /\ shown' = shown \cup {"map_missing_warning"}
    /\ pc' = "tab4"
    /\ UNCHANGED normVars
    /\ UNCHANGED <<csv, loaded, geoExists, df, widget, states, years, filtered_df,
                   kpi, runs, csvReads, geoReads>>

\* lines 150-164
Tab4 ==
    /\ pc = "tab4"
    /\ shown' = shown \cup (IF HasColumn(filtered_df, CHARGESHEETING_RATE_2022)
                            THEN {"scatter"} ELSE {"chargesheeting_info"})
    /\ pc' = "tab5"
    /\ UNCHANGED normVars
    /\ UNCHANGED <<csv, loaded, geoExists, df, widget, states, years, filtered_df,
                   kpi, runs, csvReads, geoReads>>

\* lines 166-172
Tab5 ==
    /\ pc = "tab5"
    /\ shown' = shown \cup {"table", "download"}
    /\ pc' = "done"
    /\ UNCHANGED normVars
    /\ UNCHANGED <<csv, loaded, geoExists, df, widget, states, years, filtered_df,
                   kpi, runs, csvReads, geoReads>>

\* a run has ended with the widgets on the page
Idle == pc \in {"done", "stopped"} /\ runs < MaxRuns

\* the user toggles "Select All States/UTs": the other multiselect of lines
\* 30-34 takes over, with its own default
ToggleSelectAll ==
    /\ Idle
    /\ widget' = [widget EXCEPT !.select_all = ~@, !.states = <<>>]
    /\ pc' = "start"
    /\ UNCHANGED normVars
    /\ UNCHANGED <<csv, loaded, geoExists, df, states, years, filtered_df, shown,
                   kpi, runs, csvReads, geoReads>>

\* the user changes the States/UTs selection
SelectStates ==
    /\ Idle
    /\ \E s \in SUBSET AllStates(df) : widget' = [widget EXCEPT !.states = <<s>>]
    /\ pc' = "start"
    /\ UNCHANGED normVars
    /\ UNCHANGED <<csv, loaded, geoExists, df, states, years, filtered_df, shown,
                   kpi, runs, csvReads, geoReads>>

\* the user changes the Years selection
SelectYears ==
    /\ Idle
    /\ \E y \in SUBSET AllYears(df) : widget' = [widget EXCEPT !.years = <<y>>]
    /\ pc' = "start"
    /\ UNCHANGED normVars
    /\ UNCHANGED <<csv, loaded, geoExists, df, states, years, filtered_df, shown,
                   kpi, runs, csvReads, geoReads>>

\* the steps of one run of the script
ScriptStep ==
    \/ LoadData \/ Sidebar \/ StopEmpty \/ KPIs \/ Tab1 \/ Tab2
    \/ Tab3Map \/ Tab3Warn \/ Tab4 \/ Tab5

Next ==
    \/ LoadData \/ Sidebar \/ StopEmpty \/ KPIs \/ Tab1 \/ Tab2
    \/ Tab3Map \/ Tab3Warn \/ Tab4 \/ Tab5
    \/ ToggleSelectAll \/ SelectStates \/ SelectYears

Init ==
    /\ InitDashboard
    /\ npc = "off" /\ rawName = <<>> /\ name1 = <<>> /\ name2 = <<>>

Spec == Init /\ [][Next]_vars

----------------------------------------------------------------------------
(* The specification of load_and_clean alone, and of the normalisation alone *)

DashboardOff ==
    /\ geoExists = FALSE
    /\ df = EmptyFrame
    /\ widget = WidgetDefaults
    /\ states = {} /\ years = {}
    /\ filtered_df = EmptyFrame
    /\ shown = {}
    /\ kpi = 0
    /\ runs = 0 /\ csvReads = 0 /\ geoReads = 0

LoadInit ==
    /\ InitLoad
    /\ DashboardOff
    /\ npc = "off" /\ rawName = <<>> /\ name1 = <<>> /\ name2 = <<>>

LoadNext == CallLoadAndClean

LoadSpec == LoadInit /\ [][LoadNext]_vars

NormInit ==
    /\ InitNorm
    /\ DashboardOff
    /\ csv = NoFile /\ loaded = NotLoaded /\ pc = "off"

NormNext == NormalizeOnce \/ NormalizeAgain

NormSpec == NormInit /\ [][NormNext]_vars

----------------------------------------------------------------------------
(* Properties of load_and_clean (LoadSpec) *)

Returns == pc = "loaded" /\ loaded.status = "ok"

\* the positions of the file's year columns: the headers whose normalised
\* name is all digits
YearPositions == { j \in DOMAIN csv.header : IsDigitStr(NormalizeName(csv.header[j])) }

\* the positions of the file's region-identifier column
RegionPositions ==
    { j \in DOMAIN csv.header : NormalizeName(csv.header[j]) \in {K_stateut, STATE_UT} }

\* the file is in wide form: it has a region-identifier column
WideForm == RegionPositions # {}

RegionField(i) == csv.rows[i][CHOOSE j \in RegionPositions : TRUE]

\* the (row, year column) pairs of the file whose region and count are both
\* present: a non-empty region field and a count field that is a number
PresentPairs ==
    { ij \in (DOMAIN csv.rows) \X YearPositions :
        /\ RegionField(ij[1]) # <<>>
        /\ IsDigitStr(csv.rows[ij[1]][ij[2]]) }

Key(f, row) == <<Get(f, row, STATE_UT), Get(f, row, YEAR)>>

UniqueKeys(f) ==
    \A i, j \in DOMAIN f.rows : i # j => Key(f, f.rows[i]) # Key(f, f.rows[j])

\* C1: for a wide-form table of N rows and K year columns the melt yields
\* exactly N*K long-form rows before the rows with missing values are dropped
C1_MeltRowCount ==
    pc = "loaded" /\ WideForm =>
        Len(loaded.melted.rows) = Len(csv.rows) * Cardinality(YearPositions)

C1_Witness ==
    /\ pc = "loaded" /\ WideForm
    /\ Len(csv.rows) = 2 /\ Cardinality(YearPositions) = 2
    /\ Len(loaded.melted.rows) = 4
    /\ Len(loaded.out.rows) < 4

\* C5 as stated: the prepared dataset never holds two records with the same
\* (state_ut, year) key
C5_NoDuplicateKeys == Returns => UniqueKeys(loaded.out)

DistinctRegions ==
    \A i, j \in DOMAIN csv.rows :
        i # j /\ RegionField(i) # <<>> => RegionField(i) # RegionField(j)

DistinctYears ==
    \A i, j \in YearPositions :
        i # j => ParseInt(NormalizeName(csv.header[i]))
                    # ParseInt(NormalizeName(csv.header[j]))

\* C5 amended: the prepared dataset holds one record per (input row, year
\* column) whose region and count are present, and no two records share a
\* (state_ut, year) key when no region is on two input rows and no two
\* headers give the same year
C5_OneRecordPerRowAndYear ==
    Returns =>
        /\ Len(loaded.out.rows) = Cardinality(PresentPairs)
        /\ (DistinctRegions /\ DistinctYears => UniqueKeys(loaded.out))

C5_Witness ==
    /\ Returns
    /\ DistinctRegions /\ DistinctYears
    /\ Len(csv.rows) = 2 /\ Cardinality(YearPositions) = 2
    /\ Len(loaded.out.rows) = 4

\* both required fields of a cleaned long-form row are present
Complete(f, row) == ~IsNA(Get(f, row, STATE_UT)) /\ ~IsNA(Get(f, row, TOTAL_CRIMES))

\* C7: a cell that is no number is coerced to missing without raising, and
\* the result holds exactly the melted rows whose region and count are both
\* present: no returned record lacks either, none with both is dropped
C7_DropsExactlyIncompleteRows ==
    pc = "loaded" /\ WideForm =>
        /\ loaded.status = "ok"
        /\ \A k \in DOMAIN loaded.melted.rows :
              LET raw == Get(loaded.melted, loaded.melted.rows[k], TOTAL_CRIMES)
                  num == Get(loaded.cleaned, loaded.cleaned.rows[k], TOTAL_CRIMES)
              IN  IF raw.kind = "str" /\ IsDigitStr(raw.s)
                  THEN num = Num(ParseInt(raw.s))
                  ELSE IsNA(num)
        /\ \A i \in DOMAIN loaded.out.rows : Complete(loaded.out, loaded.out.rows[i])
        /\ loaded.out.rows =
              SelectSeq(loaded.cleaned.rows, LAMBDA row : Complete(loaded.cleaned, row))
        /\ Len(loaded.out.rows) = Cardinality(PresentPairs)

C7_Witness ==
    /\ Returns
    /\ Len(loaded.out.rows) = 1
    /\ Len(loaded.melted.rows) = 2
    /\ HasColumn(loaded.out, POPULATION_LAKHS)
    /\ IsNA(Get(loaded.out, loaded.out.rows[1], POPULATION_LAKHS))
    /\ \E k \in DOMAIN loaded.melted.rows :
          Get(loaded.melted, loaded.melted.rows[k], TOTAL_CRIMES) = Txt(<<"-">>)

\* the input's columns that are not year columns
MetadataColumns == { c \in Range(loaded.columns) : ~IsDigitStr(c) }

\* C10 as stated: every column of the input that is not a year column is
\* carried into the long-form output
C10_EveryMetadataColumnCarried ==
    Returns => \A c \in MetadataColumns : HasColumn(loaded.out, c)

\* C10 amended: of the input's columns that are not year columns, exactly
\* those named state_ut, population_lakhs, crime_rate_ipc_2022 or
\* chargesheeting_rate_2022 are carried into the long-form output, each with
\* its value for an input row on every row emitted for that input row; any
\* other column is dropped by the reshape
C10_KnownColumnsCarried ==
    Returns =>
        /\ \A c \in MetadataColumns :
              HasColumn(loaded.melted, c) <=> c \in Range(id_candidates)
        /\ \A c \in MetadataColumns :
              HasColumn(loaded.out, c) <=> c \in Range(id_candidates)
        /\ \A k \in DOMAIN loaded.melted.rows :
              \A c \in MetadataColumns \cap Range(id_candidates) :
                 Get(loaded.melted, loaded.melted.rows[k], c) =
                    ReadCell(csv.rows[((k - 1) % Len(csv.rows)) + 1]
                                     [CHOOSE j \in DOMAIN csv.header :
                                         Rename(NormalizeName(csv.header[j])) = c])

C10_Witness ==
    /\ Returns
    /\ <<"s","l","_","n","o">> \in MetadataColumns
    /\ POPULATION_LAKHS \in MetadataColumns
    /\ Len(loaded.out.rows) = 2
    /\ ~HasColumn(loaded.out, <<"s","l","_","n","o">>)
    /\ HasColumn(loaded.out, POPULATION_LAKHS)

----------------------------------------------------------------------------
(* Properties of the normalisation (NormSpec) *)

\* C6: normalising an already normalised column name returns the same name
C6_NormalizeIdempotent == npc = "twice" => name2 = name1

C6_Witness ==
    /\ npc = "twice"
    /\ name1 # <<>>
    /\ name1 # rawName
    /\ Len(name1) < Len(rawName)
    /\ \E i \in DOMAIN name1 : name1[i] = "_"

----------------------------------------------------------------------------
(* Properties of the dashboard (Spec) *)

Prepared == pc \notin {"start", "crashed"}

PopulationOf(row) == Get(df, row, POPULATION_LAKHS)
TotalOf(row) == Get(df, row, TOTAL_CRIMES)
RateOf(row) == Get(df, row, CRIME_RATE_PER_100K)

\* rate = total / population, as an equation between fractions
IsQuotient(rate, total, population) ==
    /\ rate.kind = "num"
    /\ rate.n * population.n * total.d = total.n * rate.d * population.d

\* C2 as stated: the rate is total/population where the record's population
\* is present and non-zero, and the raw total where it is not
C2_RateOrTotalPerRecord ==
    Prepared =>
        \A i \in DOMAIN df.rows :
            LET row == df.rows[i]
            IN  IF /\ HasColumn(df, POPULATION_LAKHS)
                   /\ PopulationOf(row).kind = "num"
                   /\ PopulationOf(row).n # 0
                THEN IsQuotient(RateOf(row), TotalOf(row), PopulationOf(row))
                ELSE RateOf(row) = TotalOf(row)

\* C2 amended: the rate is total/population where the record's population is
\* present and non-zero; it is the raw total only when the dataset has no
\* population column at all; with the column present, a record whose
\* population is missing has a missing rate and one whose population is zero
\* has an infinite rate (a missing one when its count is zero too)
C2_RateOrTotalPerDataset ==
    Prepared =>
        \A i \in DOMAIN df.rows :
            LET row == df.rows[i]
            IN  IF ~HasColumn(df, POPULATION_LAKHS)
                THEN RateOf(row) = TotalOf(row)
                ELSE IF IsNA(PopulationOf(row)) THEN IsNA(RateOf(row))
                ELSE IF PopulationOf(row).n = 0
                     THEN RateOf(row) = (IF TotalOf(row).n = 0 THEN NA ELSE INF)
                ELSE IsQuotient(RateOf(row), TotalOf(row), PopulationOf(row))

C2_Witness ==
    /\ Prepared
    /\ HasColumn(df, POPULATION_LAKHS)
    /\ Len(df.rows) = 4
    /\ \E i \in DOMAIN df.rows :
          /\ PopulationOf(df.rows[i]) = Num(2)
          /\ TotalOf(df.rows[i]) = Num(7)
          /\ RateOf(df.rows[i]).kind = "num"
          /\ 2 * RateOf(df.rows[i]).n = 7 * RateOf(df.rows[i]).d
    /\ \E i \in DOMAIN df.rows : IsNA(PopulationOf(df.rows[i])) /\ IsNA(RateOf(df.rows[i]))

AfterStop == {"tab1", "tab2", "tab3", "tab4", "tab5", "done"}

\* the records of f whose region is in sel_states and whose year is in sel_years
Selected(f, sel_states, sel_years) ==
    SelectSeq(f.rows, LAMBDA row : /\ Get(f, row, STATE_UT).s \in sel_states
                                   /\ Get(f, row, YEAR).n \in sel_years)

\* C3: a run whose filtered record set is empty shows the notice and stops
\* without raising, reaching none of the KPI, chart, map, table or export
\* steps; a run with a non-empty set, whatever came before it, gets through
\* them
C3_EmptySelectionStops ==
    /\ pc = "filtered" => filtered_df.rows = Selected(df, states, years)
    /\ pc = "filtered" /\ filtered_df.rows = <<>> => ENABLED StopEmpty /\ ~ENABLED KPIs
    /\ pc = "filtered" /\ filtered_df.rows # <<>> => ENABLED KPIs /\ ~ENABLED StopEmpty
    /\ pc = "stopped" =>
          /\ filtered_df.rows = <<>>
          /\ "no_data_info" \in shown
          /\ shown \cap Downstream = {}
    /\ pc \in AfterStop => filtered_df.rows # <<>> /\ "no_data_info" \notin shown
    /\ pc = "crashed" => loaded.status # "ok"
    /\ pc = "done" => {"kpi", "bar", "line", "table", "download"} \subseteq shown

\* three runs, the middle one stopped on an empty selection and the other
\* two rendered everything: the stopped run never reached the boundary file
C3_Witness ==
    /\ pc = "done"
    /\ runs = 3
    /\ geoExists /\ geoReads = 2
    /\ "map" \in shown

\* the first columns of each row of f
Project(f, n) == List([i \in DOMAIN f.rows |-> SubSeq(f.rows[i], 1, n)])

FullSelection == pc = "filtered" /\ states = AllStates(df) /\ years = AllYears(df)

\* C4 as stated: with every available region and year selected, the filtered
\* records are the records load_and_clean returned
C4_FullSelectionIsPrepared ==
    FullSelection =>
        Project(filtered_df, Len(loaded.out.columns)) = loaded.out.rows

\* C4 amended: with every available region and year selected, the filtered
\* records are the records load_and_clean returned less those whose state_ut
\* is "Total State (S)", "Total UT(S)" or "Total All India"
C4_FullSelectionIsPreparedLessTotals ==
    FullSelection =>
        /\ filtered_df = df
        /\ Project(filtered_df, Len(loaded.out.columns)) =
              SelectSeq(loaded.out.rows,
                        LAMBDA row : Get(loaded.out, row, STATE_UT).s \notin
                                        {TotalStateS, TotalUTS, TotalAllIndia})

C4_Witness ==
    /\ FullSelection
    /\ widget = WidgetDefaults
    /\ Len(loaded.out.rows) = 4
    /\ Len(filtered_df.rows) = 2

\* C8: without the boundary file a run with a non-empty selection does not
\* fail; the map tab shows the warning and no map, and the KPI row, both
\* charts, the correlation tab and the table with its download are reached
C8_MissingGeojsonDisablesMapOnly ==
    ~geoExists =>
        /\ pc \in AfterStop \ {"done"} => ENABLED ScriptStep
        /\ pc = "filtered" /\ filtered_df.rows # <<>> => ENABLED KPIs
        /\ pc = "crashed" => loaded.status # "ok"
        /\ pc \in {"tab4", "tab5", "done"} =>
              "map_missing_warning" \in shown /\ "map" \notin shown
        /\ pc = "done" =>
              /\ {"kpi", "bar", "top_bottom", "line", "table", "download"} \subseteq shown
              /\ shown \cap {"scatter", "chargesheeting_info"} # {}

C8_Witness ==
    /\ ~geoExists
    /\ pc = "done"
    /\ "map_missing_warning" \in shown
    /\ "scatter" \in shown
    /\ "download" \in shown

\* C9 as stated: over a session the source table and the boundary file are
\* each read at most once
C9_FilesReadAtMostOnce == csvReads <= 1 /\ geoReads <= 1

\* C9 amended: the source table is read once by every run of the script, at
\* the start of the session and again on every filter change; the boundary
\* file is read by every run that reaches the map tab while the file exists,
\* and by no other
C9_FilesReadEveryRun ==
    /\ csvReads = runs
    /\ geoReads <= runs
    /\ ~geoExists => geoReads = 0
    /\ geoExists /\ pc \in {"tab4", "tab5", "done"} => geoReads >= 1
    /\ pc \in {"sidebar", "filtered", "stopped", "tab1", "tab2", "tab3"}
          => geoReads < runs

C9_Witness ==
    /\ pc = "done"
    /\ runs = 2
    /\ csvReads = 2
    /\ geoReads = 2

====
